---------------------------- MODULE Spec2Model ----------------------------
(***************************************************************************)
(* A model of the speech-to-text converter of src/0099.py: the engine      *)
(* dispatch of SpeechToTextConverter._process_audio, the two entry points  *)
(* transcribe_microphone and transcribe_file, the transcriptions table     *)
(* (_save_transcription, get_transcription_history) and                    *)
(* export_transcriptions, with the export choice of the command-line menu. *)
(*                                                                         *)
(* Python values are modelled as follows.  A dict is a function from its   *)
(* keys; `k in d` is k \in DOMAIN d.  A str that the code looks into       *)
(* (a text, an export) is a sequence of one-character strings; a str the   *)
(* code only passes on (a language, an engine name, a path, a rendered     *)
(* number or timestamp) is one string.  An error message f"...{e}" is the  *)
(* tuple of its parts.  A float confidence c is the integer 100 * c.       *)
(* SQL NULL is the string "NULL".  A function with side effects is an      *)
(* operator from the world w (the table, the file system, the             *)
(* configuration, and a record of the calls made) and the outcomes env of  *)
(* the calls it makes into libraries to [w, ret, exc]: the world after,    *)
(* the value returned, and the exception raised (NoExc when it returned).  *)
(***************************************************************************)
EXTENDS Integers, Sequences, FiniteSets, TLC

VARIABLES
    store,   \* the rows of table transcriptions, in insertion (rowid) order
    seq,     \* sqlite_sequence of the table: the largest id ever assigned
    files,   \* the paths that exist in the file system
    clock,   \* the wall clock in whole seconds (CURRENT_TIMESTAMP)
    config,  \* self.config
    last,    \* the last call made on the converter and what it gave
    confirm_clear,  \* st.session_state.confirm_clear of the web app
    assigned \* every id the table has ever given to a row

vars == <<store, seq, files, clock, config, last, confirm_clear, assigned>>

-----------------------------------------------------------------------------
(* Bounds of the model *)

MaxStore == 2       \* rows the table may hold in Spec
MaxClock == 1       \* seconds the clock may advance in Spec
MaxTmp == 1         \* temporary file names the file system offers

(* Program constants *)

ConfidenceGoogle == 80     \* "confidence": 0.8
ConfidenceWhisper == 90    \* "confidence": 0.9
ConfidenceDefault == 0     \* result.get("confidence", 0.0)
DefaultLimit == 100        \* get_transcription_history(self, limit: int = 100)

NULL == "NULL"
NoExc == <<>>

-----------------------------------------------------------------------------
(* Python dict helpers *)

Get_default(d, k, default) == default

Get(d, k, default) == IF k \in DOMAIN d THEN d[k] ELSE default

Put(d, k, v) == [x \in DOMAIN d \cup {k} |-> IF x = k THEN v ELSE d[x]]

Min(a, b) == IF a <= b THEN a ELSE b

-----------------------------------------------------------------------------
(* Configuration *)

\* A parsed JSON document is a dict, a function from its keys, or a value that
\* is not a dict: [nondict |-> its type, holds |-> what `key in value` is true
\* of], the members of a list, the substrings of a str, nothing for a
\* number, a boolean or null, where `in` raises TypeError.
IsDict(v) == "nondict" \notin DOMAIN v

default_config ==
    [google_api_key |-> "", azure_key |-> "", azure_region |-> "",
     openai_api_key |-> "", whisper_model |-> "base",
     default_language |-> "en-US",
     supported_languages |->
        [c \in {"en-US", "en-GB", "es-ES", "fr-FR", "de-DE", "it-IT", "pt-BR",
                "ru-RU", "ja-JP", "ko-KR", "zh-CN"} |->
            CASE c = "en-US" -> "English (US)"
              [] c = "en-GB" -> "English (UK)"
              [] c = "es-ES" -> "Spanish"
              [] c = "fr-FR" -> "French"
              [] c = "de-DE" -> "German"
              [] c = "it-IT" -> "Italian"
              [] c = "pt-BR" -> "Portuguese (Brazil)"
              [] c = "ru-RU" -> "Russian"
              [] c = "ja-JP" -> "Japanese"
              [] c = "ko-KR" -> "Korean"
              [] OTHER -> "Chinese (Simplified)"],
     audio_settings |-> [sample_rate |-> 16000, channels |-> 1, format |-> "wav"]]

\* for key, value in default_config.items():
\*     if key not in config: config[key] = value
\* On a dict this fills the keys the file leaves out.  On a list or a str
\* `in` is membership, and the assignment for the first key that is not in
\* it raises TypeError; on any other value `in` itself raises TypeError.
MergedWithDefaults(doc) ==
    IF IsDict(doc)
    THEN [ret |-> [k \in DOMAIN doc \cup DOMAIN default_config |->
                      IF k \in DOMAIN doc THEN doc[k] ELSE default_config[k]],
          exc |-> <<>>]
    ELSE IF doc.nondict \in {"list", "str"} /\ DOMAIN default_config \subseteq doc.holds
         THEN [ret |-> doc, exc |-> <<>>]
         ELSE [ret |-> <<>>, exc |-> <<"TypeError">>]

\* The configuration file: missing, or there and unreadable (open raises),
\* not JSON (json.load raises), or parsed to the document doc.
ConfigFileStates == {"missing", "unreadable", "unparseable", "parsed"}

NoConfigFile == [state |-> "missing", doc |-> <<>>]

_load_config_overwriting(file) ==
    IF file.state = "parsed" /\ IsDict(file.doc)
    THEN [ret |-> [k \in DOMAIN file.doc \cup DOMAIN default_config |->
                      IF k \in DOMAIN default_config
                      THEN default_config[k] ELSE file.doc[k]],
          exc |-> <<>>]
    ELSE [ret |-> default_config, exc |-> <<>>]

\* os.path.exists, then open, json.load and the merge in a try whose except
\* logs a warning and falls through to `return default_config`.
_load_config(file) ==
    IF file.state = "parsed" /\ MergedWithDefaults(file.doc).exc = <<>>
    THEN [ret |-> MergedWithDefaults(file.doc).ret, exc |-> <<>>]
    ELSE [ret |-> default_config, exc |-> <<>>]

-----------------------------------------------------------------------------
(* Worlds and returns *)

Returned(w, ret) == [w |-> w, ret |-> ret, exc |-> NoExc]

Raised(w, exc) == [w |-> w, ret |-> <<>>, exc |-> exc]

Called(w, name) == [w EXCEPT !.trace = Append(@, name)]

ErrorResult(msg) == "error" :> msg

-----------------------------------------------------------------------------
(* The transcriptions table *)

\* json.dumps of a metadata mapping, a list of <<key, value>> pairs, as the
\* characters of the object, and json.loads of them.
json_dumps_metadata(m) ==
    IF Len(m) = 0 THEN <<"{", "}">>
    ELSE [i \in 1..(4 * Len(m) + 1) |->
            IF i = 1 THEN "{"
            ELSE IF i = 4 * Len(m) + 1 THEN "}"
            ELSE LET j == ((i - 2) \div 4) + 1
                     r == (i - 2) % 4
                 IN  CASE r = 0 -> m[j][1]
                       [] r = 1 -> ":"
                       [] r = 2 -> m[j][2]
                       [] OTHER -> ","]

json_loads_metadata(s) ==
    [j \in 1..((Len(s) - 1) \div 4) |-> <<s[4 * j - 2], s[4 * j]>>]

InsertedRow_rowid(w, now, result, language, engine) ==
    [id |-> 1 + Cardinality(UNION {1..w.store[i].id : i \in DOMAIN w.store}),
     timestamp |-> now,
     text |-> result["text"],
     language |-> language,
     engine |-> engine,
     audio_file_path |-> NULL,
     confidence |-> Get(result, "confidence", ConfidenceDefault),
     duration |-> NULL,
     metadata |-> json_dumps_metadata(Get(result, "metadata", <<>>))]

\* INSERT INTO transcriptions (text, language, engine, confidence, metadata):
\* id is AUTOINCREMENT, timestamp defaults to CURRENT_TIMESTAMP, the columns
\* audio_file_path and duration are not named and stay NULL.
InsertedRow(w, now, result, language, engine) ==
    [id |-> w.seq + 1,
     timestamp |-> now,
     text |-> result["text"],
     language |-> language,
     engine |-> engine,
     audio_file_path |-> NULL,
     confidence |-> Get(result, "confidence", ConfidenceDefault),
     duration |-> NULL,
     metadata |-> json_dumps_metadata(Get(result, "metadata", <<>>))]

\* The database file the converter and the web app share
DbPath == "transcriptions.db"

\* Where an operation on the database can raise sqlite3.Error: in
\* sqlite3.connect, or later in execute or commit, with the connection open
FaultStages == {"connect", "execute"}

\* conn = sqlite3.connect(...); ...; conn.close(), with no try around them:
\* a fault after the connect leaves the function before conn.close().
\* w.conns counts the connections opened and not closed by a call of close.
Faulted(w, at) ==
    Raised([w EXCEPT !.conns = @ + (IF at = "connect" THEN 0 ELSE 1)],
           <<"sqlite3.Error">>)

_init_database_recreating(w, env) ==
    LET w1 == Called(w, "_init_database") IN
    IF env.save_fault
    THEN Faulted(w1, env.fault_at)
    ELSE Returned([w1 EXCEPT !.files = @ \cup {DbPath},
                             !.store = <<>>, !.seq = 0], <<>>)

\* CREATE TABLE IF NOT EXISTS transcriptions: a database that is not there
\* is created with an empty table, an existing table is left as it is.
_init_database(w, env) ==
    LET w1 == Called(w, "_init_database") IN
    IF env.save_fault
    THEN Faulted(w1, env.fault_at)
    ELSE IF DbPath \in w.files
         THEN Returned(w1, <<>>)
         ELSE Returned([w1 EXCEPT !.files = @ \cup {DbPath},
                                  !.store = <<>>, !.seq = 0], <<>>)

_save_transcription_partial(w, now, result, language, engine, env) ==
    LET w1 == Called(w, "_save_transcription")
        w2 == [w1 EXCEPT
                 !.store = Append(@, InsertedRow(w, now, result, language, engine)),
                 !.seq = @ + 1]
    IN  IF env.save_fault
        THEN Faulted(IF env.fault_at = "connect" THEN w1 ELSE w2, env.fault_at)
        ELSE Returned(w2, <<>>)

_save_transcription_dropped(w, now, result, language, engine, env) ==
    LET w1 == Called(w, "_save_transcription") IN
    IF env.save_fault
    THEN Faulted(w1, env.fault_at)
    ELSE Returned(w1, <<>>)

\* A storage fault (connect, execute or commit raising sqlite3.Error) leaves
\* the table as it was: the single INSERT is not committed.
_save_transcription(w, now, result, language, engine, env) ==
    LET w1 == Called(w, "_save_transcription") IN
    IF env.save_fault
    THEN Faulted(w1, env.fault_at)
    ELSE Returned([w1 EXCEPT
                     !.store = Append(@, InsertedRow(w, now, result, language, engine)),
                     !.seq = @ + 1],
                  <<>>)

-----------------------------------------------------------------------------
(* The recognition engines *)

\* sr.Recognizer.recognize_google returns the transcript or raises
\* UnknownValueError, RequestError, or anything else (a socket error, an
\* assertion on the audio); only the first two are caught here.
GoogleOutcomes == {"ok", "unknown_value", "request_error", "other_error"}

_recognize_google(w, audio, language, env) ==
    LET w1 == Called(w, "_recognize_google") IN
    CASE env.outcome = "ok" ->
           Returned(w1, ("text" :> env.text) @@ ("confidence" :> ConfidenceGoogle)
                        @@ ("engine" :> "google"))
      [] env.outcome = "unknown_value" ->
           Returned(w1, ErrorResult(<<"Could not understand audio">>))
      [] env.outcome = "request_error" ->
           Returned(w1, ErrorResult(<<"Google API error: ", "request failed">>))
      [] OTHER -> Raised(w1, <<"provider failure">>)

\* tempfile.NamedTemporaryFile(delete=False) creates a file with a name not in
\* use; os.unlink is reached only when export, load_model and transcribe all
\* returned.
WhisperOutcomes == {"ok", "tmpfile_error", "export_error", "load_error", "transcribe_error"}

TmpNames == {"tmp" \o ToString(k) \o ".wav" : k \in 1..MaxTmp}

FreeTmpNames(fs) == TmpNames \ fs

_recognize_whisper(w, audio, language, env) ==
    LET w1 == Called(w, "_recognize_whisper")
        created == [w1 EXCEPT !.files = @ \cup {env.tmp}, !.tmp = @ \cup {env.tmp}]
        unlinked == [created EXCEPT !.files = @ \ {env.tmp}]
    IN
    CASE env.outcome = "tmpfile_error" ->
           Returned(w1, ErrorResult(<<"Whisper error: ", "no temporary file">>))
      [] env.outcome = "export_error" ->
           Returned(created, ErrorResult(<<"Whisper error: ", "export failed">>))
      [] ~IsDict(w.config) ->   \* self.config["whisper_model"]
           Returned(created, ErrorResult(<<"Whisper error: ", "TypeError">>))
      [] env.outcome = "load_error" ->
           Returned(created, ErrorResult(<<"Whisper error: ", "model not loaded">>))
      [] env.outcome = "transcribe_error" ->
           Returned(created, ErrorResult(<<"Whisper error: ", "inference failed">>))
      [] OTHER ->
           Returned(unlinked, ("text" :> env.text) @@ ("confidence" :> ConfidenceWhisper)
                              @@ ("engine" :> "whisper"))

_recognize_azure(w, audio, language, env) ==
    LET w1 == Called(w, "_recognize_azure") IN
    IF ~IsDict(w.config)   \* self.config["azure_key"] raises TypeError
    THEN Returned(w1, ErrorResult(<<"Azure error: ", "TypeError">>))
    ELSE IF w.config.azure_key = "" \/ w.config.azure_region = ""
    THEN Returned(w1, ErrorResult(<<"Azure credentials not configured">>))
    ELSE Returned(w1, ErrorResult(<<"Azure recognition not fully implemented">>))

_recognize_openai(w, audio, language, env) ==
    LET w1 == Called(w, "_recognize_openai") IN
    IF ~IsDict(w.config)   \* self.config["openai_api_key"] raises TypeError
    THEN Returned(w1, ErrorResult(<<"OpenAI error: ", "TypeError">>))
    ELSE IF w.config.openai_api_key = ""
    THEN Returned(w1, ErrorResult(<<"OpenAI API key not configured">>))
    ELSE Returned(w1, ErrorResult(<<"OpenAI recognition not fully implemented">>))

\* self.engines: the keys of the dispatch table
engines == {"google", "whisper", "azure", "openai"}

CallEngine_swapped(w, engine, audio, language, env) ==
    CASE engine = "google" -> _recognize_google(w, audio, language, env)
      [] engine = "whisper" -> _recognize_google(w, audio, language, env)
      [] engine = "azure" -> _recognize_azure(w, audio, language, env)
      [] OTHER -> _recognize_openai(w, audio, language, env)

\* self.engines[engine](audio, language)
CallEngine(w, engine, audio, language, env) ==
    CASE engine = "google" -> _recognize_google(w, audio, language, env)
      [] engine = "whisper" -> _recognize_whisper(w, audio, language, env)
      [] engine = "azure" -> _recognize_azure(w, audio, language, env)
      [] OTHER -> _recognize_openai(w, audio, language, env)

-----------------------------------------------------------------------------
(* The recognition path *)

Truthy_always(text) == TRUE

\* if "text" in result and result["text"]
Truthy(text) == text # <<>>

Caught_not(r) == r

\* except Exception as e: return {"error": str(e)}
Caught(r) == IF r.exc # NoExc THEN Returned(r.w, ErrorResult(r.exc)) ELSE r

\* The try block of _process_audio: the handler of the engine, then the
\* INSERT when it gave a text.  w.handled keeps what the handler returned.
Dispatch(w, now, audio, language, engine, env) ==
    LET r == CallEngine(w, engine, audio, language, env)
        w2 == [r.w EXCEPT !.handled = r.ret]
    IN
    Caught(IF r.exc # NoExc THEN r
           ELSE IF "text" \in DOMAIN r.ret /\ Truthy(r.ret["text"])
                THEN LET s == _save_transcription(w2, now, r.ret, language, engine, env)
                     IN  IF s.exc # NoExc THEN s ELSE Returned(s.w, r.ret)
                ELSE Returned(w2, r.ret))

_process_audio_unchecked(w, now, audio, language, engine, env) ==
    LET w1 == Called(w, "_process_audio") IN
    IF engine \notin engines
    THEN Caught(Raised(w1, <<"KeyError: ", engine>>))
    ELSE Dispatch(w1, now, audio, language, engine, env)

_process_audio(w, now, audio, language, engine, env) ==
    LET w1 == Called(w, "_process_audio") IN
    IF engine \notin engines
    THEN Returned(w1, ErrorResult(<<"Unsupported engine: ", engine>>))
    ELSE Dispatch(w1, now, audio, language, engine, env)

\* sr.Microphone, adjust_for_ambient_noise and listen: the capture gives an
\* audio sample, times out waiting for speech (sr.WaitTimeoutError), or fails
\* otherwise.
CaptureOutcomes == {"ok", "timeout", "error"}

transcribe_microphone_listening(w, now, language, engine, env) ==
    LET w1 == Called(w, "transcribe_microphone") IN
    CASE env.capture = "error" -> Caught(Raised(w1, <<"Microphone error">>))
      [] OTHER -> Caught(_process_audio(w1, now, "audio", language, engine, env))

transcribe_microphone(w, now, language, engine, env) ==
    LET w1 == Called(w, "transcribe_microphone") IN
    CASE env.capture = "timeout" ->
           Returned(w1, ErrorResult(<<"No speech detected within timeout period">>))
      [] env.capture = "error" -> Caught(Raised(w1, <<"Microphone error">>))
      [] OTHER -> Caught(_process_audio(w1, now, "audio", language, engine, env))

\* file_path.rsplit('.', 1)[0] + '_converted.wav'
ConvertedPath(file_path) ==
    CASE file_path = "a.flac" -> "a_converted.wav"
      [] file_path = "missing.wav" -> "missing_converted.wav"
      [] OTHER -> file_path \o "_converted.wav"

_convert_audio_file_renaming(w, file_path, env) ==
    LET w1 == Called(w, "_convert_audio_file") IN
    IF env.convert = "ok"
    THEN Returned([w1 EXCEPT !.files = @ \cup {ConvertedPath(file_path)}],
                  ConvertedPath(file_path))
    ELSE Returned(w1, ConvertedPath(file_path))

\* AudioSegment.from_file, set_channels, set_frame_rate and export: on any
\* exception the original path is returned.
_convert_audio_file(w, file_path, env) ==
    LET w1 == Called(w, "_convert_audio_file") IN
    IF env.convert = "ok"
    THEN Returned([w1 EXCEPT !.files = @ \cup {ConvertedPath(file_path)}],
                  ConvertedPath(file_path))
    ELSE Returned(w1, file_path)

\* with sr.AudioFile(audio_path): w.audio_path keeps the path that is opened
AudioFile(w, audio_path) == [w EXCEPT !.audio_path = audio_path]

\* sr.AudioFile(audio_path) and record raise when the file cannot be read
transcribe_file(w, now, file_path, language, engine, env) ==
    LET w1 == Called(w, "transcribe_file")
        c == _convert_audio_file(w1, file_path, env)
        a == AudioFile(c.w, c.ret)
    IN
    Caught(IF env.decode # "ok"
           THEN Raised(a, <<"could not read ", c.ret>>)
           ELSE LET p == _process_audio(a, now, "audio", language, engine, env)
                IN  Returned(p.w, Put(p.ret, "audio_file_path", file_path)))

-----------------------------------------------------------------------------
(* Reading the table *)

\* The orders in which the rows of the set G may come
RECURSIVE PermsOf(_)
PermsOf(G) ==
    IF G = {} THEN {<<>>}
    ELSE UNION {{<<i>> \o rest : rest \in PermsOf(G \ {i})} : i \in G}

\* ORDER BY timestamp DESC, for the rows with a timestamp in lo..hi: every
\* order of these rows (as indices of the table) in which the timestamps do
\* not increase.  SQL leaves the order of rows with equal timestamps to the
\* engine.
RECURSIVE OrdersIn(_, _, _)
OrdersIn(rows, lo, hi) ==
    IF lo > hi THEN {<<>>}
    ELSE IF lo = hi THEN PermsOf({i \in DOMAIN rows : rows[i].timestamp = lo})
    ELSE LET mid == (lo + hi) \div 2
         IN  {later \o earlier : later \in OrdersIn(rows, mid + 1, hi),
                                 earlier \in OrdersIn(rows, lo, mid)}

Orders(rows) ==
    IF rows = <<>> THEN {<<>>}
    ELSE LET ts == {rows[i].timestamp : i \in DOMAIN rows}
         IN  OrdersIn(rows, CHOOSE t \in ts : \A u \in ts : t <= u,
                            CHOOSE t \in ts : \A u \in ts : u <= t)

RowDict_untexted(row) ==
    [id |-> row.id, timestamp |-> row.timestamp, text |-> <<>>,
     language |-> row.language, engine |-> row.engine,
     confidence |-> row.confidence, metadata |-> <<>>]

\* SELECT id, timestamp, text, language, engine, confidence, metadata
RowDict(row) ==
    [id |-> row.id, timestamp |-> row.timestamp, text |-> row.text,
     language |-> row.language, engine |-> row.engine,
     confidence |-> row.confidence,
     metadata |-> IF row.metadata = <<>> THEN <<>>
                  ELSE json_loads_metadata(row.metadata)]

\* LIMIT ?: a negative limit is no limit in SQLite
Limited(n, limit) == IF limit < 0 THEN n ELSE Min(limit, n)

get_transcription_history(w, limit, env) ==
    LET w1 == Called(w, "get_transcription_history") IN
    IF env.read_fault
    THEN Faulted(w1, env.fault_at)
    ELSE Returned(w1, [i \in 1..Limited(Len(w.store), limit) |->
                          RowDict(w.store[env.order[i]])])

-----------------------------------------------------------------------------
(* Rendering values as text *)

\* The string SQLite gives for a timestamp, 'YYYY-MM-DD HH:MM:SS', for the
\* second n of the clock.
TsStr(n) == "T" \o ToString(n)

\* repr of the float c / 100, and the float a decimal literal denotes
FloatStr(c) ==
    IF c >= 100 THEN ToString(c \div 100) \o "." \o ToString((c % 100) \div 10)
    ELSE IF c % 10 = 0 THEN "0." \o ToString(c \div 10)
    ELSE IF c < 10 THEN "0.0" \o ToString(c)
    ELSE "0." \o ToString(c)

\* (-1 stands for what is not a number)
FloatOf(str) ==
    IF \E c \in 0..100 : FloatStr(c) = str
    THEN CHOOSE c \in 0..100 : FloatStr(c) = str
    ELSE -1

\* The sequences of seqs, one after the other
RECURSIVE Concat(_)
Concat(seqs) ==
    IF Len(seqs) = 0 THEN <<>>
    ELSE IF Len(seqs) = 1 THEN seqs[1]
    ELSE LET half == Len(seqs) \div 2
         IN  Concat(SubSeq(seqs, 1, half)) \o Concat(SubSeq(seqs, half + 1, Len(seqs)))

\* sep.join(seqs)
JoinWith(seqs, sep) ==
    Concat([i \in 1..(2 * Len(seqs) - 1) |->
               IF i % 2 = 1 THEN seqs[(i + 1) \div 2] ELSE sep])

-----------------------------------------------------------------------------
(* export_transcriptions: json *)

\* The characters json.dumps writes for one character of a str
JsonEscape(c) ==
    CASE c = "\"" -> <<"\\", "\"">>
      [] c = "\\" -> <<"\\", "\\">>
      [] c = "\n" -> <<"\\", "n">>
      [] OTHER -> <<c>>

JsonString(chars) ==
    <<"\"">> \o Concat([i \in 1..Len(chars) |-> JsonEscape(chars[i])]) \o <<"\"">>

RECURSIVE JsonUnescape(_)
JsonUnescape(s) ==
    IF s = <<>> THEN <<>>
    ELSE IF s[1] = "\\" /\ Len(s) >= 2
         THEN <<(IF s[2] = "n" THEN "\n" ELSE s[2])>> \o JsonUnescape(SubSeq(s, 3, Len(s)))
         ELSE <<s[1]>> \o JsonUnescape(Tail(s))

\* json.loads of a string literal
JsonUnstring(lit) == JsonUnescape(SubSeq(lit, 2, Len(lit) - 1))

\* One object of the array: its members in key order, each <<key, literal>>
JsonObject(item) ==
    << <<"id", <<ToString(item.id)>> >>,
       <<"timestamp", JsonString(<<TsStr(item.timestamp)>>)>>,
       <<"text", JsonString(item.text)>>,
       <<"language", JsonString(<<item.language>>)>>,
       <<"engine", JsonString(<<item.engine>>)>>,
       <<"confidence", <<FloatStr(item.confidence)>> >>,
       <<"metadata", json_dumps_metadata(item.metadata)>> >>

\* json.dumps(history, indent=2, default=str): the array, one object per item
json_dumps(history) == [i \in 1..Len(history) |-> JsonObject(history[i])]

Member(obj, key) == (CHOOSE m \in {obj[i] : i \in 1..Len(obj)} : m[1] = key)[2]

HasMember(obj, key) == \E i \in 1..Len(obj) : obj[i][1] = key

\* What a reader of the json export gets back for one object
JsonRecord(obj) ==
    [k \in {x \in {"text", "language", "engine", "confidence"} : HasMember(obj, x)} |->
        CASE k = "text" -> JsonUnstring(Member(obj, k))
          [] k = "confidence" -> FloatOf(Member(obj, k)[1])
          [] OTHER -> JsonUnstring(Member(obj, k))[1]]

json_loads(doc) == [i \in 1..Len(doc) |-> JsonRecord(doc[i])]

-----------------------------------------------------------------------------
(* export_transcriptions: csv *)

CsvColumns == <<"id", "timestamp", "text", "language", "engine", "confidence", "metadata">>

NeedsQuoting_never(chars) == FALSE

\* csv.QUOTE_MINIMAL: a field holding the delimiter, the quote character or
\* a line break is quoted, its quote characters doubled.
NeedsQuoting(chars) == \E i \in 1..Len(chars) : chars[i] \in {",", "\"", "\n"}

CsvField(chars) ==
    IF NeedsQuoting(chars)
    THEN <<"\"">>
         \o Concat([i \in 1..Len(chars) |->
                       IF chars[i] = "\"" THEN <<"\"", "\"">> ELSE <<chars[i]>>])
         \o <<"\"">>
    ELSE chars

CsvLine(cells) == JoinWith([i \in 1..Len(cells) |-> CsvField(cells[i])], <<",">>) \o <<"\n">>

CsvCells(item) ==
    << <<ToString(item.id)>>, <<TsStr(item.timestamp)>>, item.text,
       <<item.language>>, <<item.engine>>, <<FloatStr(item.confidence)>>,
       json_dumps_metadata(item.metadata) >>

\* pd.DataFrame(history).to_csv(index=False): a header line and a line per
\* item; a frame without rows has no columns and gives one empty line.
to_csv(history) ==
    IF Len(history) = 0 THEN <<"\n">>
    ELSE CsvLine([i \in 1..Len(CsvColumns) |-> <<CsvColumns[i]>>])
         \o Concat([i \in 1..Len(history) |-> CsvLine(CsvCells(history[i]))])

\* Reading csv: a separator counts when it is outside quotes, that is when an
\* even number of quote characters precedes it.
QuotesBefore(s, i) == Cardinality({j \in 1..(i - 1) : s[j] = "\""})

Separators(s, c) == {i \in 1..Len(s) : s[i] = c /\ QuotesBefore(s, i) % 2 = 0}

\* The k-th smallest member of P, 0 before the first and bound after the last
Kth(P, k, bound) ==
    IF k = 0 THEN 0
    ELSE IF k > Cardinality(P) THEN bound
    ELSE CHOOSE p \in P : Cardinality({q \in P : q < p}) = k - 1

\* The pieces of s between the positions P
SplitAt(s, P) ==
    [k \in 1..(Cardinality(P) + 1) |->
        SubSeq(s, Kth(P, k - 1, Len(s) + 1) + 1, Kth(P, k, Len(s) + 1) - 1)]

RECURSIVE Undouble(_)
Undouble(s) ==
    IF s = <<>> THEN <<>>
    ELSE IF s[1] = "\"" /\ Len(s) >= 2 /\ s[2] = "\""
         THEN <<"\"">> \o Undouble(SubSeq(s, 3, Len(s)))
         ELSE <<s[1]>> \o Undouble(Tail(s))

CsvUnquote(f) ==
    IF f # <<>> /\ f[1] = "\"" THEN Undouble(SubSeq(f, 2, Len(f) - 1)) ELSE f

\* The lines of a csv text (each ends with a line break), as lists of fields
CsvLines(s) ==
    LET pieces == SplitAt(s, Separators(s, "\n"))
    IN  [k \in 1..(Len(pieces) - 1) |->
            LET fields == SplitAt(pieces[k], Separators(pieces[k], ","))
            IN  [i \in 1..Len(fields) |-> CsvUnquote(fields[i])]]

Column(header, name) == CHOOSE i \in 1..Len(header) : header[i] = <<name>>

HasColumn(header, name) == \E i \in 1..Len(header) : header[i] = <<name>>

\* What a reader of the csv export gets back: a record per line after the
\* header, with the fields the header names
read_csv(s) ==
    LET lines == CsvLines(s)
        header == IF lines = <<>> THEN <<>> ELSE lines[1]
    IN  [r \in 1..(Len(lines) - 1) |->
            [k \in {x \in {"text", "language", "engine", "confidence"} :
                        HasColumn(header, x)} |->
                LET line == lines[r + 1]
                    \* a missing or empty field reads as an empty one
                    cell == IF Column(header, k) <= Len(line)
                            THEN line[Column(header, k)] ELSE <<>>
                    word == IF cell = <<>> THEN "" ELSE cell[1]
                IN  CASE k = "text" -> cell
                      [] k = "confidence" -> FloatOf(word)
                      [] OTHER -> word]]

-----------------------------------------------------------------------------
(* export_transcriptions: txt *)

\* f"{item['timestamp']}: {item['text']}"
TxtLine(item) == <<TsStr(item.timestamp), ":", " ">> \o item.text

\* "\n".join(...)
to_txt(history) == JoinWith([i \in 1..Len(history) |-> TxtLine(history[i])], <<"\n">>)

\* The lines of a text: its pieces between line breaks, none for an empty text
TxtLines(s) ==
    IF s = <<>> THEN <<>>
    ELSE SplitAt(s, {i \in 1..Len(s) : s[i] = "\n"})

\* What a reader of the txt export gets back for each line: the text after
\* the timestamp and ": "; the line names nothing else
read_txt(s) ==
    LET lines == TxtLines(s)
    IN  [r \in 1..Len(lines) |-> "text" :> SubSeq(lines[r], 4, Len(lines[r]))]

-----------------------------------------------------------------------------
(* export_transcriptions *)

Formats == {"json", "csv", "txt"}

export_transcriptions(w, format, env) ==
    LET w1 == Called(w, "export_transcriptions")
        h == get_transcription_history(w1, DefaultLimit, env)
    IN
    IF h.exc # NoExc THEN Raised(h.w, h.exc)
    ELSE CASE format = "json" -> Returned(h.w, json_dumps(h.ret))
           [] format = "csv" -> Returned(h.w, to_csv(h.ret))
           [] format = "txt" -> Returned(h.w, to_txt(h.ret))
           [] OTHER -> Raised(h.w, <<"Unsupported format: ", format>>)

\* What a reader recovers from an export in the given format
Recovered(format, output) ==
    CASE format = "json" -> json_loads(output)
      [] format = "csv" -> read_csv(output)
      [] OTHER -> read_txt(output)

-----------------------------------------------------------------------------
(* The command-line menu, choice 4 *)

ExportFile(format) == "transcriptions." \o format

\* export_transcriptions, then open(filename, 'w') and write; any exception
\* is printed and the menu goes on.
cli_export(w, format, env) ==
    LET w1 == Called(w, "main:4")
        e == export_transcriptions(w1, format, env)
    IN
    IF e.exc # NoExc
    THEN Returned(e.w, <<"Export error: ", e.exc>>)
    ELSE Returned([e.w EXCEPT !.files = @ \cup {ExportFile(format)},
                              !.written = @ \cup {ExportFile(format)}],
                  <<"Exported to ", ExportFile(format)>>)

-----------------------------------------------------------------------------
(* Inputs *)

Languages == {"en-US"}

EngineNames == engines \cup {"unsupported_engine"}

Texts == {<<>>, <<"a">>}

FilePaths == {"a.flac", "missing.wav"}

FormatNames == Formats \cup {"xml"}

Limits == {0, 1, 2, DefaultLimit}

\* The outcomes of the library calls one call on the converter makes: the
\* capture, the conversion and the decoding of a file, the provider with the
\* text it gives, the name of the temporary file, the INSERT, the SELECT with
\* the order it gives.  "-" stands for a call that is not reached.
NoEnv ==
    [capture |-> "-", convert |-> "-", decode |-> "-", outcome |-> "-",
     text |-> <<>>, tmp |-> "-", save_fault |-> FALSE, read_fault |-> FALSE,
     order |-> <<>>, fault_at |-> "-"]

Outcomes(engine) ==
    CASE engine = "google" -> GoogleOutcomes
      [] engine = "whisper" -> WhisperOutcomes
      [] OTHER -> {"-"}

\* The outcomes of _process_audio(audio, language, engine)
RecognitionEnvs(engine, fs) ==
    {[NoEnv EXCEPT !.outcome = o, !.text = t, !.save_fault = f, !.tmp = n,
                   !.fault_at = a] :
        <<o, t, f, n, a>> \in
          {x \in Outcomes(engine) \X Texts \X BOOLEAN
                  \X (IF engine = "whisper" THEN FreeTmpNames(fs) ELSE {"-"})
                  \X (FaultStages \cup {"-"}) :
              /\ x[1] # "ok" => x[2] = <<>>
              /\ x[2] = <<>> => x[3] = FALSE
              /\ x[3] <=> x[5] \in FaultStages
              /\ x[1] = "tmpfile_error" => x[4] = CHOOSE n \in FreeTmpNames(fs) : TRUE}}

MicrophoneEnvs(engine, fs) ==
    {[e EXCEPT !.capture = "ok"] : e \in RecognitionEnvs(engine, fs)}
    \cup {[NoEnv EXCEPT !.capture = c] : c \in CaptureOutcomes \ {"ok"}}

\* A file that does not exist is neither converted nor decoded
FileEnvs(file_path, engine, fs) ==
    {[e EXCEPT !.convert = c, !.decode = "ok"] :
        e \in RecognitionEnvs(engine, fs),
        c \in {x \in {"ok", "fail"} : file_path \in fs}}
    \cup {[NoEnv EXCEPT !.convert = c, !.decode = "fail"] :
             c \in {x \in {"ok", "fail"} : x = "ok" => file_path \in fs}}

\* The outcomes of one read of the table
ReadEnvs(rows) ==
    {[NoEnv EXCEPT !.order = o] : o \in Orders(rows)}
    \cup {[NoEnv EXCEPT !.read_fault = TRUE, !.fault_at = a] : a \in FaultStages}

-----------------------------------------------------------------------------
(* State *)

World == [store |-> store, seq |-> seq, files |-> files, config |-> config,
          trace |-> <<>>, tmp |-> {}, written |-> {}, handled |-> <<>>,
          audio_path |-> "", conns |-> 0]

NoCall ==
    [op |-> "none", language |-> "", engine |-> "", file_path |-> "",
     format |-> "", limit |-> 0, result |-> <<>>, exc |-> NoExc,
     before |-> <<>>, files_before |-> {}, trace |-> <<>>, tmp |-> {},
     written |-> {}, handled |-> <<>>, env |-> NoEnv,
     audio_path |-> "", config_file |-> NoConfigFile, seq_before |-> 0,
     conns |-> 0, load_exc |-> NoExc]

\* The state after the call r of operation op with the arguments args
Finish(op, args, env, call) ==
    \E r \in {call} :
    /\ store' = r.w.store
    /\ seq' = r.w.seq
    /\ files' = r.w.files
    /\ last' = [args EXCEPT !.op = op, !.result = r.ret, !.exc = r.exc,
                            !.before = store, !.files_before = files,
                            !.trace = r.w.trace, !.tmp = r.w.tmp,
                            !.written = r.w.written,
                            !.handled = r.w.handled, !.env = env,
                            !.audio_path = r.w.audio_path,
                            !.seq_before = seq, !.conns = r.w.conns]
    /\ assigned' = assigned \cup {r.w.store[i].id : i \in DOMAIN r.w.store}
    /\ UNCHANGED <<clock, config, confirm_clear>>

Init ==
    /\ store = <<>>
    /\ seq = 0
    /\ files = {"a.flac", DbPath}
    /\ clock = 0
    /\ config = default_config
    /\ last = NoCall
    /\ confirm_clear = FALSE
    /\ assigned = {}

-----------------------------------------------------------------------------
(* Actions: one per call on the converter *)

Tick ==
    /\ clock' = clock + 1
    /\ UNCHANGED <<store, seq, files, config, last, confirm_clear, assigned>>

ProcessAudio(language, engine, env) ==
    Finish("_process_audio",
           [NoCall EXCEPT !.language = language, !.engine = engine], env,
           _process_audio(World, clock, "audio", language, engine, env))

TranscribeMicrophone(language, engine, env) ==
    Finish("transcribe_microphone",
           [NoCall EXCEPT !.language = language, !.engine = engine], env,
           transcribe_microphone(World, clock, language, engine, env))

TranscribeFile(file_path, language, engine, env) ==
    Finish("transcribe_file",
           [NoCall EXCEPT !.file_path = file_path, !.language = language,
                          !.engine = engine], env,
           transcribe_file(World, clock, file_path, language, engine, env))

GetHistory(limit, env) ==
    Finish("get_transcription_history", [NoCall EXCEPT !.limit = limit], env,
           get_transcription_history(World, limit, env))

Export(format, env) ==
    Finish("export_transcriptions", [NoCall EXCEPT !.format = format], env,
           export_transcriptions(World, format, env))

CliExport(format, env) ==
    Finish("main:4", [NoCall EXCEPT !.format = format], env,
           cli_export(World, format, env))

-----------------------------------------------------------------------------
(* Spec: the converter from an empty table *)

Next ==
    \/ clock < MaxClock /\ Tick
    \/ \E language \in Languages, engine \in EngineNames :
         \E env \in RecognitionEnvs(engine, files) :
            Len(store) < MaxStore /\ ProcessAudio(language, engine, env)
    \/ \E language \in Languages, engine \in EngineNames :
         \E env \in MicrophoneEnvs(engine, files) :
            Len(store) < MaxStore /\ TranscribeMicrophone(language, engine, env)
    \/ \E file_path \in FilePaths, language \in Languages, engine \in EngineNames :
         \E env \in FileEnvs(file_path, engine, files) :
            Len(store) < MaxStore /\ TranscribeFile(file_path, language, engine, env)
    \/ \E limit \in Limits, env \in ReadEnvs(store) : GetHistory(limit, env)

Spec == Init /\ [][Next]_vars

-----------------------------------------------------------------------------
(* SpecExport: exporting a table that earlier transcriptions have filled *)

MaxTextLen == 2     \* characters of a text in SpecExport
MaxExcess == 1      \* rows beyond DefaultLimit in SpecExport

ExportChars == {"a", ",", "\"", "\n"}

ExportTexts == UNION {[1..n -> ExportChars] : n \in 1..MaxTextLen}

ExportLanguages == {"en-US", "es-ES"}

\* One successful transcription: what was said, in which language, the engine
Utterances == [text : ExportTexts, language : ExportLanguages, engine : {"google", "whisper"}]

Plain == [text |-> <<"b">>, language |-> "en-US", engine |-> "google"]

\* The table after the utterances us were transcribed, one per second, into an
\* empty table: the rows _save_transcription inserts for the results of the
\* engines
EngineResult(u) ==
    CallEngine([trace |-> <<>>, files |-> {}, tmp |-> {}, config |-> default_config], u.engine, "audio", u.language,
               [NoEnv EXCEPT !.outcome = "ok", !.text = u.text, !.tmp = "tmp1.wav"]).ret

TableOf(us) ==
    [i \in 1..Len(us) |->
        InsertedRow([seq |-> i - 1], i, EngineResult(us[i]), us[i].language, us[i].engine)]

ExportTables ==
    {<<>>}
    \cup {<<u>> : u \in Utterances}
    \cup {<<u, Plain>> : u \in Utterances}
    \cup {<<Plain, u>> : u \in Utterances}
    \cup {[i \in 1..n |-> Plain] : n \in (DefaultLimit - 1)..(DefaultLimit + MaxExcess)}

InitExport ==
    \E us \in ExportTables :
        /\ store = TableOf(us)
        /\ seq = Len(us)
        /\ files = {"a.flac", DbPath}
        /\ clock = Len(us)
        /\ config = default_config
        /\ last = NoCall
        /\ confirm_clear = FALSE
        /\ assigned = 1..Len(us)

NextExport ==
    \/ \E format \in FormatNames, env \in ReadEnvs(store) : Export(format, env)
    \/ \E format \in FormatNames, env \in ReadEnvs(store) : CliExport(format, env)

SpecExport == InitExport /\ [][NextExport]_vars

-----------------------------------------------------------------------------
(* SpecClear: the table under transcriptions and the web app's clear-all *)

MaxSeq == 3         \* rows ever inserted in SpecClear

ClickClearAll_oldest(fault) ==
    /\ IF ~confirm_clear
       THEN confirm_clear' = TRUE /\ store' = store
       ELSE IF fault
            THEN UNCHANGED <<confirm_clear, store>>
            ELSE confirm_clear' = FALSE /\ store' = SubSeq(store, 1, Len(store) - 1)
    /\ last' = [NoCall EXCEPT !.op = "clear_all", !.before = store,
                              !.files_before = files, !.seq_before = seq,
                              !.exc = IF confirm_clear /\ fault
                                      THEN <<"sqlite3.Error">> ELSE NoExc]
    /\ UNCHANGED <<seq, files, clock, config, assigned>>

ClickClearAll_unconfirmed(fault) ==
    /\ IF fault
       THEN UNCHANGED <<confirm_clear, store>>
       ELSE confirm_clear' = FALSE /\ store' = <<>>
    /\ last' = [NoCall EXCEPT !.op = "clear_all", !.before = store,
                              !.files_before = files, !.seq_before = seq,
                              !.exc = IF fault
                                      THEN <<"sqlite3.Error">> ELSE NoExc]
    /\ UNCHANGED <<seq, files, clock, config, assigned>>

\* The button "Clear All History" of the web app: the first click asks for
\* a confirmation, the click after it runs DELETE FROM transcriptions, which
\* leaves sqlite_sequence as it is.  A storage fault (connect, execute or
\* commit raising) ends the script run with the table and the flag as they
\* were.
ClickClearAll(fault) ==
    /\ IF ~confirm_clear
       THEN confirm_clear' = TRUE /\ store' = store
       ELSE IF fault
            THEN UNCHANGED <<confirm_clear, store>>
            ELSE confirm_clear' = FALSE /\ store' = <<>>
    /\ last' = [NoCall EXCEPT !.op = "clear_all", !.before = store,
                              !.files_before = files, !.seq_before = seq,
                              !.exc = IF confirm_clear /\ fault
                                      THEN <<"sqlite3.Error">> ELSE NoExc]
    /\ UNCHANGED <<seq, files, clock, config, assigned>>

NextClear ==
    \/ clock < MaxClock /\ Tick
    \/ \E language \in Languages, engine \in {"google", "whisper"} :
         \E env \in MicrophoneEnvs(engine, files) :
            /\ seq < MaxSeq
            /\ TranscribeMicrophone(language, engine, env)
    \/ \E fault \in BOOLEAN : ClickClearAll(fault)

SpecClear == Init /\ [][NextClear]_vars

-----------------------------------------------------------------------------
(* SpecConfig: converters constructed on any configuration file, and the   *)
(* engines called on them                                                  *)

\* The keys a configuration file may hold and the values it may give them:
\* credentials, empty or not, a nested record that names one of the audio
\* parameters only, and a key the default document does not have.
FileKeys == {"azure_key", "azure_region", "openai_api_key", "audio_settings", "theme"}

FileValues(k) ==
    CASE k = "azure_key" -> {"", "key"}
      [] k = "azure_region" -> {"", "eastus"}
      [] k = "openai_api_key" -> {"", "sk"}
      [] k = "audio_settings" -> {[sample_rate |-> 8000]}
      [] OTHER -> {"dark"}

\* The dicts with the keys K
RECURSIVE DictsOver(_)
DictsOver(K) ==
    IF K = {} THEN {<<>>}
    ELSE LET k == CHOOSE x \in K : TRUE
         IN  {(k :> v) @@ d : v \in FileValues(k), d \in DictsOver(K \ {k})}

\* Documents that parse and are not a dict: a list or a str that holds none,
\* one or all of the default keys, a number, null
NonDictDocs ==
    {[nondict |-> t, holds |-> S] :
        t \in {"list", "str"},
        S \in {{}, {"azure_key"}, DOMAIN default_config}}
    \cup {[nondict |-> t, holds |-> {}] : t \in {"int", "null"}}

ConfigDocs == UNION {DictsOver(K) : K \in SUBSET FileKeys} \cup NonDictDocs

ConfigFiles ==
    {[state |-> s, doc |-> <<>>] : s \in ConfigFileStates \ {"parsed"}}
    \cup {[state |-> "parsed", doc |-> d] : d \in ConfigDocs}

\* SpeechToTextConverter(config_path): the configuration is loaded, the
\* table is created if it does not exist, the engines are registered.
Construct(file, env) ==
    \E c \in {_load_config(file)} :
    \E d \in {IF c.exc = NoExc THEN _init_database(World, env)
               ELSE Raised(World, c.exc)} :
        /\ config' = IF d.exc = NoExc THEN c.ret ELSE config
        /\ store' = d.w.store
        /\ seq' = d.w.seq
        /\ files' = d.w.files
        /\ last' = [NoCall EXCEPT !.op = "__init__", !.config_file = file,
                                  !.result = c.ret, !.exc = d.exc,
                                  !.load_exc = c.exc,
                                  !.before = store, !.files_before = files,
                                  !.seq_before = seq, !.trace = d.w.trace,
                                  !.conns = d.w.conns, !.env = env]
        /\ UNCHANGED <<clock, confirm_clear, assigned>>

\* The outcomes of _init_database
InitEnvs ==
    {NoEnv} \cup {[NoEnv EXCEPT !.save_fault = TRUE, !.fault_at = a] : a \in FaultStages}

\* The handlers of the engines called on their own, as the tests call them
RecognizeGoogle(language, env) ==
    Finish("_recognize_google",
           [NoCall EXCEPT !.language = language, !.engine = "google"], env,
           _recognize_google(World, "audio", language, env))

RecognizeAzure(language) ==
    Finish("_recognize_azure",
           [NoCall EXCEPT !.language = language, !.engine = "azure"], NoEnv,
           _recognize_azure(World, "audio", language, NoEnv))

RecognizeOpenai(language) ==
    Finish("_recognize_openai",
           [NoCall EXCEPT !.language = language, !.engine = "openai"], NoEnv,
           _recognize_openai(World, "audio", language, NoEnv))

InitConfig ==
    /\ store = <<>>
    /\ seq = 0
    /\ files = {"a.flac", DbPath}
    /\ clock = 0
    /\ \E file \in ConfigFiles :
         /\ config = _load_config(file).ret
         /\ last = [NoCall EXCEPT !.op = "__init__", !.config_file = file,
                                  !.result = _load_config(file).ret,
                                  !.exc = _load_config(file).exc,
                                  !.load_exc = _load_config(file).exc]
    /\ confirm_clear = FALSE
    /\ assigned = {}

NextConfig ==
    \/ \E file \in ConfigFiles, env \in InitEnvs : Construct(file, env)
    \/ \E language \in Languages, env \in RecognitionEnvs("google", files) :
         RecognizeGoogle(language, env)
    \/ \E language \in Languages : RecognizeAzure(language)
    \/ \E language \in Languages : RecognizeOpenai(language)
    \/ \E language \in Languages, engine \in {"azure", "openai"} :
         \E env \in RecognitionEnvs(engine, files) :
            ProcessAudio(language, engine, env)

SpecConfig == InitConfig /\ [][NextConfig]_vars

-----------------------------------------------------------------------------
(* SpecWorkflow: microphone transcriptions into an empty table, then the   *)
(* history and the exports                                                 *)

NextWorkflow ==
    \/ clock < MaxClock /\ Tick
    \/ \E language \in Languages, engine \in EngineNames :
         \E env \in MicrophoneEnvs(engine, files) :
            store = <<>> /\ TranscribeMicrophone(language, engine, env)
    \/ \E limit \in Limits, env \in ReadEnvs(store) : GetHistory(limit, env)
    \/ \E format \in FormatNames, env \in ReadEnvs(store) : Export(format, env)

SpecWorkflow == Init /\ [][NextWorkflow]_vars

-----------------------------------------------------------------------------
(* SpecLifecycle: the table under saves, reads, exports, new converters    *)
(* and the web app's clear-all                                             *)

\* The results _save_transcription is called with: a text, with or without
\* a confidence and a metadata mapping (a list of <<key, value>> pairs)
SaveResults ==
    {("text" :> <<"a">>) @@ c @@ m :
        c \in {<<>>, "confidence" :> 85},
        m \in {<<>>, "metadata" :> << <<"test", "data">> >>}}

\* The outcomes of one INSERT
SaveEnvs ==
    {NoEnv} \cup {[NoEnv EXCEPT !.save_fault = TRUE, !.fault_at = a] : a \in FaultStages}

\* converter._save_transcription(result, language, engine), as the tests
\* call it; last.handled keeps the result it was given
SaveTranscription(result, language, engine, env) ==
    Finish("_save_transcription",
           [NoCall EXCEPT !.language = language, !.engine = engine], env,
           _save_transcription([World EXCEPT !.handled = result], clock,
                               result, language, engine, env))

NextLifecycle ==
    \/ clock < MaxClock /\ Tick
    \/ \E result \in SaveResults, language \in Languages,
          engine \in {"google"}, env \in SaveEnvs :
         /\ Len(store) < MaxStore
         /\ seq < MaxSeq
         /\ SaveTranscription(result, language, engine, env)
    \/ \E env \in ReadEnvs(store) : GetHistory(DefaultLimit, env)
    \/ \E format \in {"json", "txt"}, env \in ReadEnvs(store) : Export(format, env)
    \/ \E env \in InitEnvs : Construct(NoConfigFile, env)
    \/ \E fault \in BOOLEAN : ClickClearAll(fault)

SpecLifecycle == Init /\ [][NextLifecycle]_vars

-----------------------------------------------------------------------------
(* SpecCli: the menu loop of main() *)

CliHistoryLimit == 10   \* converter.get_transcription_history(10)

\* print of a result: the error, or the transcription
PrintResult(w, result) ==
    IF "error" \in DOMAIN result
    THEN Returned(w, <<"Error: ", result["error"]>>)
    ELSE IF "text" \in DOMAIN result
         THEN Returned(w, <<"Transcription: ", result["text"]>>)
         ELSE Raised(w, <<"KeyError">>)

\* Choice 1
cli_microphone(w, now, language, engine, env) ==
    LET r == transcribe_microphone(Called(w, "main:1"), now, language, engine, env)
    IN  IF r.exc # NoExc THEN r ELSE PrintResult(r.w, r.ret)

\* Choice 2: the file is transcribed only if os.path.exists(file_path)
cli_file(w, now, file_path, language, engine, env) ==
    LET w1 == Called(w, "main:2") IN
    IF file_path \in w.files
    THEN LET r == transcribe_file(w1, now, file_path, language, engine, env)
         IN  IF r.exc # NoExc THEN r ELSE PrintResult(r.w, r.ret)
    ELSE Returned(w1, <<"File not found!">>)

\* Choice 3: the call of get_transcription_history is in no try
cli_history(w, env) ==
    LET h == get_transcription_history(Called(w, "main:3"), CliHistoryLimit, env)
    IN  IF h.exc # NoExc THEN h
        ELSE IF h.ret # <<>>
             THEN Returned(h.w,
                     [i \in 1..Len(h.ret) |->
                         <<TsStr(h.ret[i].timestamp), ": ",
                           SubSeq(h.ret[i].text, 1, Min(100, Len(h.ret[i].text))),
                           "...">>])
             ELSE Returned(h.w, <<"No transcriptions found.">>)

\* Choice 5: break
cli_exit(w) == Returned(Called(w, "main:5"), <<"Goodbye!">>)

\* Any other input
cli_invalid(w) ==
    Returned(Called(w, "main:else"), <<"Invalid choice. Please try again.">>)

MainOps == {"main:1", "main:2", "main:3", "main:4", "main:5", "main:else"}

\* while True: the menu is shown again unless the last choice was 5 or
\* raised an exception out of main()
MenuShown == ~(last.op \in MainOps /\ (last.op = "main:5" \/ last.exc # NoExc))

CliMicrophone(language, engine, env) ==
    Finish("main:1", [NoCall EXCEPT !.language = language, !.engine = engine],
           env, cli_microphone(World, clock, language, engine, env))

CliFile(file_path, language, engine, env) ==
    Finish("main:2",
           [NoCall EXCEPT !.file_path = file_path, !.language = language,
                          !.engine = engine],
           env, cli_file(World, clock, file_path, language, engine, env))

CliHistory(env) ==
    Finish("main:3", [NoCall EXCEPT !.limit = CliHistoryLimit], env,
           cli_history(World, env))

CliExit == Finish("main:5", NoCall, NoEnv, cli_exit(World))

CliInvalid == Finish("main:else", NoCall, NoEnv, cli_invalid(World))

\* "Enter engine (google/whisper, default: google)"
CliEngines == {"google", "whisper"}

NextCli ==
    \/ clock < MaxClock /\ Tick
    \/ \E language \in Languages, engine \in CliEngines :
         \E env \in MicrophoneEnvs(engine, files) :
            MenuShown /\ Len(store) < MaxStore /\ CliMicrophone(language, engine, env)
    \/ \E file_path \in FilePaths, language \in Languages, engine \in CliEngines :
         \E env \in FileEnvs(file_path, engine, files) :
            MenuShown /\ Len(store) < MaxStore
                      /\ CliFile(file_path, language, engine, env)
    \/ \E env \in ReadEnvs(store) : MenuShown /\ CliHistory(env)
    \/ \E format \in {"json", "xml"}, env \in ReadEnvs(store) :
         MenuShown /\ CliExport(format, env)
    \/ MenuShown /\ CliExit
    \/ MenuShown /\ CliInvalid

SpecCli == Init /\ [][NextCli]_vars

-----------------------------------------------------------------------------
(* What the last call did *)

InTrace(name) == \E i \in 1..Len(last.trace) : last.trace[i] = name

CallsOf(name) == Cardinality({i \in 1..Len(last.trace) : last.trace[i] = name})

ReachedRecognition == InTrace("_process_audio")

HandlerCalled ==
    \E h \in {"_recognize_google", "_recognize_whisper", "_recognize_azure",
               "_recognize_openai"} : InTrace(h)

EngineGaveText == "text" \in DOMAIN last.handled /\ last.handled["text"] # <<>>

AppendedOne ==
    /\ Len(store) = Len(last.before) + 1
    /\ SubSeq(store, 1, Len(last.before)) = last.before

StoreUnchanged == store = last.before

HasText(result) == "text" \in DOMAIN result

HasError(result) == "error" \in DOMAIN result

FixedEngines == {"google", "whisper", "azure", "openai"}

SupportedFormats == {"json", "csv", "txt"}

TranscribeOps == {"transcribe_microphone", "transcribe_file"}

RecognitionOps == TranscribeOps \cup {"_process_audio"}

ReadDone == last.op = "get_transcription_history" /\ last.exc = NoExc

ExportDone == last.op = "export_transcriptions" /\ last.exc = NoExc

\* The rows of the table in the order the last read of it gave
RowsRead == [i \in 1..Len(store) |-> store[last.env.order[i]]]

SavedFields == {"text", "language", "engine", "confidence"}

FieldsOf(row) == [k \in SavedFields |-> row[k]]

-----------------------------------------------------------------------------
(* C1 *)

\* C1, as stated: every call that reaches _process_audio appends exactly one
\* record if and only if the engine's result holds a non-empty text, and
\* leaves the table unchanged otherwise.
C1_AppendsIffText ==
    ReachedRecognition =>
        /\ AppendedOne <=> EngineGaveText
        /\ ~EngineGaveText => StoreUnchanged

\* C1, amended: every call that reaches _process_audio calls
\* _save_transcription, once, if and only if the engine's result holds a
\* non-empty text; exactly one record, with that text, is appended if and only
\* if this save does not fail with a storage fault; in every other case
\* (error result, empty text, unsupported engine, failed save) the table is
\* unchanged.
C1_SavesIffText ==
    ReachedRecognition =>
        /\ CallsOf("_save_transcription") = (IF EngineGaveText THEN 1 ELSE 0)
        /\ AppendedOne <=> (EngineGaveText /\ ~last.env.save_fault)
        /\ AppendedOne => store[Len(store)].text = last.handled["text"]
        /\ ~AppendedOne => StoreUnchanged

C1_Witness == ReachedRecognition /\ EngineGaveText /\ AppendedOne

-----------------------------------------------------------------------------
(* C2 *)

\* C2, as stated: get_transcription_history returns a record saved later
\* before a record saved earlier (identities grow in the order of saving),
\* also when both were saved in the same second.
C2_LaterSavedFirst ==
    ReadDone =>
        \A i, j \in 1..Len(last.result) :
            i < j => last.result[i].id > last.result[j].id

-----------------------------------------------------------------------------
(* C3 *)

\* C3, as stated: with N records saved, get_transcription_history(k), k >= 0,
\* returns exactly the min(k, N) most recently saved records, newest first.
C3_MostRecentFirst ==
    ReadDone /\ last.limit >= 0 =>
        last.result = [i \in 1..Min(last.limit, Len(store)) |->
                          RowDict(store[Len(store) + 1 - i])]

-----------------------------------------------------------------------------
(* C4 *)

\* C4, as stated: after _recognize_whisper returned, the temporary file it
\* created does not exist, whatever the outcome of the export, the model load
\* and the inference.
C4_TemporaryFileRemoved ==
    InTrace("_recognize_whisper") => last.tmp \cap files = {}

-----------------------------------------------------------------------------
(* C5 *)

\* C5: a call that reaches _process_audio with an engine name outside
\* {google, whisper, azure, openai} returns an error result tagged
\* 'Unsupported engine' and no text, calls no engine handler and leaves the
\* table unchanged.
C5_UnsupportedEngine ==
    ReachedRecognition /\ last.engine \notin FixedEngines =>
        /\ last.exc = NoExc
        /\ HasError(last.result)
        /\ last.result["error"] = <<"Unsupported engine: ", last.engine>>
        /\ ~HasText(last.result)
        /\ ~HandlerCalled
        /\ CallsOf("_save_transcription") = 0
        /\ StoreUnchanged

C5_Witness ==
    /\ last.op = "transcribe_file"
    /\ ReachedRecognition
    /\ last.engine = "unsupported_engine"
    /\ Len(store) > 0

-----------------------------------------------------------------------------
(* C6 *)

\* C6, as stated: for each of the formats json, csv and txt, the text,
\* language, engine and confidence of every saved record are recovered from
\* the output of export_transcriptions.
C6_RoundTripEveryFormat ==
    ExportDone /\ last.format \in SupportedFormats =>
        Recovered(last.format, last.result) =
            [i \in 1..Len(store) |-> FieldsOf(RowsRead[i])]

\* C6, amended: for the formats json and csv, the text, language, engine and
\* confidence of every record the export renders (the records that
\* get_transcription_history() returns, at most 100) are recovered from the
\* output of export_transcriptions; the lines of the txt format hold the
\* timestamp and the text only.
C6_RoundTripJsonCsv ==
    ExportDone /\ last.format \in {"json", "csv"} =>
        Recovered(last.format, last.result) =
            [i \in 1..Min(DefaultLimit, Len(store)) |-> FieldsOf(RowsRead[i])]

C6_Witness ==
    /\ ExportDone
    /\ last.format = "csv"
    /\ Len(store) = 2
    /\ \E i \in 1..2 : store[i].text = <<"\"", "\n">> /\ store[i].language = "es-ES"

-----------------------------------------------------------------------------
(* C7 *)

\* C7, as stated: export_transcriptions("json") gives an array with exactly
\* one entry per stored record, however many records are stored.
C7_JsonHoldsEveryRecord ==
    ExportDone /\ last.format = "json" => Len(last.result) = Len(store)

-----------------------------------------------------------------------------
(* C8 *)

UnsupportedFormatError == <<"Unsupported format: ", last.format>>

\* What the export of the last call raised: the menu prints it
ExportRaised ==
    IF last.op = "main:4" THEN
        IF last.result[1] = "Export error: " THEN last.result[2] ELSE NoExc
    ELSE last.exc

NothingWritten == files = last.files_before /\ last.written = {}

\* C8, as stated: for a format outside {json, csv, txt}, export_transcriptions
\* fails with the unsupported-format error, gives no output and leaves the
\* table unchanged, and the menu creates and writes no export file.
C8_UnsupportedFormat ==
    /\ last.op \in {"export_transcriptions", "main:4"}
    /\ last.format \notin SupportedFormats
    => /\ ExportRaised = UnsupportedFormatError
       /\ StoreUnchanged
       /\ NothingWritten

-----------------------------------------------------------------------------
(* C9 *)

\* C9: a result of transcribe_microphone, transcribe_file or _process_audio
\* never holds both a text and an error; a result with a text holds a
\* confidence and the name of the engine that was asked for.
C9_ResultShape ==
    last.op \in RecognitionOps /\ last.exc = NoExc =>
        /\ ~(HasText(last.result) /\ HasError(last.result))
        /\ HasText(last.result) =>
              /\ "confidence" \in DOMAIN last.result
              /\ "engine" \in DOMAIN last.result
              /\ last.result["engine"] = last.engine

C9_Witness ==
    /\ last.op = "transcribe_file"
    /\ HasText(last.result)
    /\ last.engine = "whisper"

-----------------------------------------------------------------------------
(* C10 *)

EngineFailed ==
    /\ ReachedRecognition
    /\ \/ last.engine \notin FixedEngines
       \/ last.env.outcome \notin {"ok", "-"}
       \/ last.env.save_fault

ErrorWithoutText == HasError(last.result) /\ ~HasText(last.result)

\* C10, as stated: transcribe_microphone and transcribe_file never raise, and
\* every failure of the capture, of the conversion or the decoding of the
\* file, of the engine dispatch or of the engine is returned as an error
\* result without a text.
C10_EveryFailureReturned ==
    last.op \in TranscribeOps =>
        /\ last.exc = NoExc
        /\ \/ last.env.capture \in {"timeout", "error"}
           \/ last.env.convert = "fail"
           \/ last.env.decode = "fail"
           \/ EngineFailed
           => ErrorWithoutText

\* C10, amended: transcribe_microphone and transcribe_file never raise, and
\* every failure of the capture, of the decoding of the file, of the engine
\* dispatch, of the engine or of the save is returned as an error result
\* without a text; a failed conversion of the file is not reported, the
\* original file is decoded instead.
C10_NeverRaises ==
    last.op \in TranscribeOps =>
        /\ last.exc = NoExc
        /\ \/ last.env.capture \in {"timeout", "error"}
           \/ last.env.decode = "fail"
           \/ EngineFailed
           => ErrorWithoutText

C10_Witness ==
    /\ last.op = "transcribe_file"
    /\ last.env.decode = "fail"
    /\ ErrorWithoutText

-----------------------------------------------------------------------------
(* C11 *)

StorageFault == <<"sqlite3.Error">>

SaveFaulted == InTrace("_save_transcription") /\ last.env.save_fault

\* C11, as stated: when the store faults while a recognized result is saved,
\* the transcription operation raises the storage fault to its caller; it
\* does not return an error result in its place.
C11_SaveFaultRaised ==
    last.op \in RecognitionOps /\ SaveFaulted =>
        /\ last.exc = StorageFault
        /\ last.result = <<>>

-----------------------------------------------------------------------------
(* C12 *)

\* The rows the last call appended to the table
RowsAppended == SubSeq(store, Len(last.before) + 1, Len(store))

\* C12, as stated: a row created by transcribe_file holds the file path the
\* caller gave as its audio_file_path, and a row created by any other
\* transcription holds none.
C12_AudioPathOfFile ==
    last.op \in RecognitionOps =>
        \A i \in 1..Len(RowsAppended) :
            RowsAppended[i].audio_file_path =
                (IF last.op = "transcribe_file" THEN last.file_path ELSE NULL)

-----------------------------------------------------------------------------
(* C13 *)

IdsOf(rows) == {rows[i].id : i \in DOMAIN rows}

\* C13: identities are never reused.  No two rows of the table share an id,
\* and over any sequence of saves and clear-alls every row a step adds gets
\* an id greater than every id given before, those of deleted rows included.
C13_IdentityNeverReused ==
    /\ [](\A i, j \in DOMAIN store : i # j => store[i].id # store[j].id)
    /\ [][\A i \in DOMAIN store' :
              i > Len(store) => \A a \in assigned : store'[i].id > a]_vars

C13_Witness ==
    /\ last.op = "transcribe_microphone"
    /\ AppendedOne
    /\ Len(store) = 1
    /\ \E a \in assigned : a \notin IdsOf(store)

-----------------------------------------------------------------------------
(* C14 *)

StubEngines == {"azure", "openai"}

StubCalled ==
    /\ last.op \in {"_recognize_azure", "_recognize_openai", "_process_audio"}
    /\ last.engine \in StubEngines

\* The value the configuration gives key k is empty
KeyEmpty(k) == IsDict(config) /\ config[k] = ""

StubError ==
    IF last.engine = "azure"
    THEN IF KeyEmpty("azure_key") \/ KeyEmpty("azure_region")
         THEN <<"Azure credentials not configured">>
         ELSE <<"Azure recognition not fully implemented">>
    ELSE IF KeyEmpty("openai_api_key")
         THEN <<"OpenAI API key not configured">>
         ELSE <<"OpenAI recognition not fully implemented">>

\* C14, as stated: for every configuration the azure engine returns the
\* credentials error when the Azure key or region is empty and the
\* not-implemented error otherwise, the openai engine returns the
\* credentials error when its key is empty and the not-implemented error
\* otherwise, and neither returns a text or has a row saved.
C14_StubEngines ==
    StubCalled =>
        /\ last.exc = NoExc
        /\ HasError(last.result)
        /\ last.result["error"] = StubError
        /\ ~HasText(last.result)
        /\ CallsOf("_save_transcription") = 0
        /\ StoreUnchanged

-----------------------------------------------------------------------------
(* C15 *)

Constructed == last.op = "__init__"

\* C15, as stated: _load_config never raises, and for a file that is
\* missing, unreadable, not parseable, or that parses to something that is
\* not a dict, it returns exactly the default document.
C15_FallsBackToDefault ==
    Constructed =>
        /\ last.load_exc = NoExc
        /\ last.config_file.state # "parsed" \/ ~IsDict(last.config_file.doc)
           => last.result = default_config

-----------------------------------------------------------------------------
(* C16 *)

ParsedDict == last.config_file.state = "parsed" /\ IsDict(last.config_file.doc)

\* C16: for a file that parses to a dict, the configuration returned has
\* every key of the default document; a key of the file keeps the file's
\* value whole (a nested record is not merged field by field), a key the
\* file leaves out has the default value, and the keys only the file has
\* are kept.
C16_ShallowMerge ==
    Constructed /\ ParsedDict =>
        LET doc == last.config_file.doc IN
        /\ last.load_exc = NoExc
        /\ IsDict(last.result)
        /\ DOMAIN last.result = DOMAIN doc \cup DOMAIN default_config
        /\ \A k \in DOMAIN doc : last.result[k] = doc[k]
        /\ \A k \in DOMAIN default_config \ DOMAIN doc :
               last.result[k] = default_config[k]
        /\ last.exc = NoExc => config = last.result

C16_Witness ==
    /\ Constructed /\ ParsedDict
    /\ last.exc = NoExc
    /\ DOMAIN last.config_file.doc = {"audio_settings", "theme", "azure_key"}
    /\ config["audio_settings"] = [sample_rate |-> 8000]
    /\ config["theme"] = "dark"
    /\ config["whisper_model"] = "base"

-----------------------------------------------------------------------------
(* C20 *)

GoogleCalled == last.op = "_recognize_google"

\* C20, as stated: _recognize_google never raises.  When the provider
\* recognized a text it returns it with confidence 0.8 and engine 'google';
\* whenever the provider call fails it returns an error result without a
\* text, 'Could not understand audio' for speech that is not understood and
\* 'Google API error: ...' for a failed request.
C20_GoogleFailureReturned ==
    GoogleCalled =>
        /\ last.exc = NoExc
        /\ last.env.outcome = "ok" =>
              last.result = [text |-> last.env.text,
                             confidence |-> ConfidenceGoogle,
                             engine |-> "google"]
        /\ last.env.outcome # "ok" =>
              HasError(last.result) /\ ~HasText(last.result)
        /\ last.env.outcome = "unknown_value" =>
              last.result["error"] = <<"Could not understand audio">>
        /\ last.env.outcome = "request_error" =>
              last.result["error"][1] = "Google API error: "

-----------------------------------------------------------------------------
(* C17 *)

MicGaveText == last.op = "transcribe_microphone" /\ last.exc = NoExc /\ HasText(last.result)

HistoryRead == ReadDone /\ last.limit = DefaultLimit

JsonExported == ExportDone /\ last.format = "json"

\* The history and the json export of a table of one row: one record, and
\* one entry, with the text of that row
OneRecordRead ==
    /\ HistoryRead /\ Len(store) = 1 =>
          Len(last.result) = 1 /\ last.result[1].text = store[1].text
    /\ JsonExported /\ Len(store) = 1 =>
          /\ Len(json_loads(last.result)) = 1
          /\ json_loads(last.result)[1].text = store[1].text

\* C17, as stated: a microphone transcription into an empty table that
\* returns a text T leaves a table of one row with the text T, of which
\* get_transcription_history() then returns exactly one record with the text
\* T and export_transcriptions("json") an array of one entry with the text T.
C17_TextThenHistory ==
    /\ [][MicGaveText' /\ last' # last /\ store = <<>> =>
              Len(store') = 1 /\ store'[1].text = last'.result["text"]]_vars
    /\ []OneRecordRead

\* C17, amended: the same for a transcription that returns a non-empty text
\* T; a transcription that returns an empty text saves nothing, and the
\* history and the export stay empty.
C17_NonEmptyTextThenHistory ==
    /\ [][MicGaveText' /\ last' # last /\ store = <<>> =>
              IF last'.result["text"] # <<>>
              THEN Len(store') = 1 /\ store'[1].text = last'.result["text"]
              ELSE store' = <<>>]_vars
    /\ []OneRecordRead
    /\ [](HistoryRead /\ store = <<>> => last.result = <<>>)
    /\ [](JsonExported /\ store = <<>> => json_loads(last.result) = <<>>)

C17_Witness ==
    /\ JsonExported
    /\ Len(store) = 1
    /\ store[1].engine = "google"
    /\ Len(json_loads(last.result)) = 1
    /\ json_loads(last.result)[1].text = <<"a">>

-----------------------------------------------------------------------------
(* C18 *)

TimedOut == last.op = "transcribe_microphone" /\ last.env.capture = "timeout"

\* C18: a capture that times out makes transcribe_microphone return the
\* error 'No speech detected within timeout period' without raising; no
\* engine is called and nothing is saved; and the call leaves the table,
\* its id counter, the files and the configuration as they were, so that
\* every later operation behaves as if the call had not been made.
C18_TimeoutRecoverable ==
    /\ [](TimedOut =>
            /\ last.exc = NoExc
            /\ last.result = ErrorResult(<<"No speech detected within timeout period">>)
            /\ ~ReachedRecognition
            /\ ~HandlerCalled
            /\ CallsOf("_save_transcription") = 0)
    /\ [][TimedOut' /\ last' # last =>
              /\ store' = store
              /\ seq' = seq
              /\ files' = files
              /\ config' = config
              /\ clock' = clock]_vars

C18_Witness ==
    /\ TimedOut
    /\ Len(store) = 1
    /\ last.engine = "whisper"

-----------------------------------------------------------------------------
(* C19 *)

FileTranscribed == last.op = "transcribe_file"

\* C19: _convert_audio_file never raises.  When the conversion fails the
\* path that transcribe_file opens is the path the caller gave, otherwise it
\* is the path of the converted file, which then exists; and when the
\* conversion failed and the original file can be read, the call goes on to
\* the recognition and returns what the recognition gives, with no error for
\* the conversion.
C19_ConversionFallback ==
    FileTranscribed =>
        /\ last.exc = NoExc
        /\ CallsOf("_convert_audio_file") = 1
        /\ last.env.convert = "ok" =>
              /\ last.audio_path # last.file_path
              /\ last.audio_path \in files
        /\ last.env.convert # "ok" => last.audio_path = last.file_path
        /\ last.env.decode = "ok" =>
              /\ ReachedRecognition
              /\ EngineGaveText /\ ~last.env.save_fault =>
                    /\ ~HasError(last.result)
                    /\ last.result["text"] = last.handled["text"]
              /\ HasError(last.handled) => last.result["error"] = last.handled["error"]

C19_Witness ==
    /\ FileTranscribed
    /\ last.env.convert = "fail"
    /\ last.env.decode = "ok"
    /\ HasText(last.result)
    /\ last.result["text"] = <<"a">>

-----------------------------------------------------------------------------
(* C21 *)

\* The operations that read the table or set a converter up over it
FrameOps == {"get_transcription_history", "export_transcriptions", "__init__"}

\* C21: a record is immutable once written.  Over any sequence of saves,
\* reads, exports, new converters and clear-alls, a step either leaves the
\* table as it is, or appends one row after the rows there (which keep their
\* places and values), or is a clear-all that empties it; after a read, an
\* export or the construction of a converter the table is the one before it.
C21_RecordsImmutable ==
    /\ [][\/ store' = store
          \/ /\ Len(store') = Len(store) + 1
             /\ SubSeq(store', 1, Len(store)) = store
             /\ last'.op = "_save_transcription"
          \/ /\ store' = <<>>
             /\ last'.op = "clear_all"]_vars
    /\ [](last.op \in FrameOps => store = last.before)

C21_Witness ==
    /\ last.op = "export_transcriptions"
    /\ last.exc = NoExc
    /\ Len(store) = 2
    /\ store = last.before
    /\ \E a \in assigned : a \notin IdsOf(store)

-----------------------------------------------------------------------------
(* C22 *)

StorageOps == {"__init__", "_save_transcription", "get_transcription_history"}

\* C22: the database is opened and closed per operation.  After
\* _init_database, _save_transcription or get_transcription_history has
\* returned or raised a storage fault, no connection it opened is left open.
C22_ConnectionClosed == last.op \in StorageOps => last.conns = 0

-----------------------------------------------------------------------------
(* C23 *)

SaveCalled == last.op = "_save_transcription"

\* C23: a record is never partially written.  A call of _save_transcription
\* that raises a storage fault leaves the table exactly as it was; a call
\* that returns has appended exactly one row, which has its id, its
\* timestamp and the text, language and engine the call was given.
C23_NeverPartial ==
    SaveCalled =>
        IF last.exc # NoExc
        THEN last.exc = StorageFault /\ store = last.before
        ELSE /\ AppendedOne
             /\ LET row == store[Len(store)] IN
                /\ row.id = last.seq_before + 1
                /\ row.timestamp \in 0..clock
                /\ row.text = last.handled["text"]
                /\ row.language = last.language
                /\ row.engine = last.engine

C23_Witness ==
    /\ SaveCalled
    /\ last.exc = StorageFault
    /\ last.env.fault_at = "execute"
    /\ Len(store) = 1

-----------------------------------------------------------------------------
(* C24 *)

\* C24: _save_transcription stores the text of the result, the language and
\* the engine it is called with, the confidence of the result, 0.0 if it has
\* none, and its metadata mapping, the empty mapping if it has none, and no
\* duration; get_transcription_history returns the stored values as they
\* are, the metadata as the mapping that was stored.
C24_SavedValues ==
    /\ (SaveCalled /\ last.exc = NoExc) =>
          LET row == store[Len(store)]
              given == last.handled
          IN  /\ row.text = given["text"]
              /\ row.language = last.language
              /\ row.engine = last.engine
              /\ row.confidence = (IF "confidence" \in DOMAIN given
                                   THEN given["confidence"] ELSE 0)
              /\ row.metadata = json_dumps_metadata(
                                   IF "metadata" \in DOMAIN given
                                   THEN given["metadata"] ELSE <<>>)
              /\ row.duration = NULL
    /\ \A i \in DOMAIN store : store[i].duration = NULL
    /\ ReadDone =>
          \A i \in DOMAIN last.result :
              LET item == last.result[i]
                  row == RowsRead[i]
              IN  /\ item.text = row.text
                  /\ item.language = row.language
                  /\ item.engine = row.engine
                  /\ item.confidence = row.confidence
                  /\ json_dumps_metadata(item.metadata) = row.metadata

C24_Witness ==
    /\ ReadDone
    /\ Len(last.result) = 2
    /\ \E i \in DOMAIN last.result : last.result[i].metadata = << <<"test", "data">> >>
    /\ \E i \in DOMAIN last.result :
          last.result[i].metadata = <<>> /\ last.result[i].confidence = 0

-----------------------------------------------------------------------------
(* C26 *)

\* C26: clear-all deletes every record.  A press of "Clear All History"
\* made while the confirm flag is unset sets the flag and leaves the table
\* as it is; a press made while it is set empties the table and resets the
\* flag (or, on a storage fault, changes neither); the table loses rows in
\* no other step, and a read of the emptied table returns the empty list.
C26_ClearAll ==
    /\ [][(last'.op = "clear_all" /\ clock' = clock) =>
             IF ~confirm_clear
             THEN confirm_clear' /\ store' = store
             ELSE \/ store' = <<>> /\ ~confirm_clear' /\ last'.exc = NoExc
                  \/ store' = store /\ confirm_clear' /\ last'.exc # NoExc]_vars
    /\ [][Len(store') < Len(store) =>
             last'.op = "clear_all" /\ confirm_clear /\ ~confirm_clear']_vars
    /\ []((ReadDone /\ store = <<>>) => last.result = <<>>)

C26_Witness ==
    /\ ReadDone
    /\ last.result = <<>>
    /\ store = <<>>
    /\ assigned # {}
    /\ ~confirm_clear

-----------------------------------------------------------------------------
(* C28 *)

\* C28: initialization is idempotent with respect to stored data.
\* Constructing a converter over a database that holds records leaves every
\* row and the id counter as they were, and the database file, which exists,
\* is not created again.
C28_InitIdempotent ==
    Constructed =>
        /\ store = last.before
        /\ seq = last.seq_before
        /\ (DbPath \in last.files_before => files = last.files_before)

C28_Witness ==
    /\ Constructed
    /\ last.exc = NoExc
    /\ InTrace("_init_database")
    /\ Len(store) = 2
    /\ seq > Len(store)

-----------------------------------------------------------------------------
(* C25 *)

\* C25: export_transcriptions("txt") gives exactly one line per exported
\* record, whatever its text: line i is '<timestamp>: <text>' of the i-th
\* record get_transcription_history returns, and an empty history gives an
\* empty output.
C25_OneLinePerRecord ==
    ExportDone /\ last.format = "txt" =>
        TxtLines(last.result) =
            [i \in 1..Min(DefaultLimit, Len(store)) |-> TxtLine(RowsRead[i])]

-----------------------------------------------------------------------------
(* C27 *)

\* The last call was a transcription that returned a result with no error
ReturnedNoError ==
    /\ last.op \in RecognitionOps
    /\ last.exc = NoExc
    /\ ~HasError(last.result)

\* The row the last call appended holds the text of its result
SavedItsText ==
    /\ AppendedOne
    /\ store[Len(store)].text = last.result["text"]

\* C27, as stated: every result of transcribe_microphone, transcribe_file or
\* _process_audio without an error tag carries a non-empty text, and a record
\* with that text was saved before it was returned.
C27_NoErrorMeansSaved ==
    ReturnedNoError =>
        /\ HasText(last.result)
        /\ last.result["text"] # <<>>
        /\ SavedItsText

\* C27, amended: every result of transcribe_microphone, transcribe_file or
\* _process_audio without an error tag carries a text; if the text is not
\* empty a record with that text was saved before the result was returned,
\* and if it is empty nothing was saved.
C27_NoErrorMeansTextSavedIfNonEmpty ==
    ReturnedNoError =>
        /\ HasText(last.result)
        /\ IF last.result["text"] # <<>>
           THEN SavedItsText
           ELSE StoreUnchanged /\ CallsOf("_save_transcription") = 0

C27_Witness ==
    /\ ReturnedNoError
    /\ last.op = "transcribe_file"
    /\ last.engine = "whisper"
    /\ last.result["text"] = <<"a">>
    /\ Len(store) = 2

-----------------------------------------------------------------------------
(* C30 *)

\* C30: transcribe_file leaves no file of its own behind.  After it has
\* returned, with a text or with an error result, the '<name>_converted.wav'
\* file the conversion wrote is not there any more, and the input file is
\* there as before.
C30_NoConvertedFileLeft ==
    FileTranscribed /\ last.exc = NoExc =>
        /\ (InTrace("_convert_audio_file") /\ last.env.convert = "ok") =>
              ConvertedPath(last.file_path) \notin files
        /\ (last.file_path \in files) <=> (last.file_path \in last.files_before)

-----------------------------------------------------------------------------
(* C29 *)

\* C29: the menu loop of the command line ends only on choice 5.  After any
\* other choice (a transcription that gave an error result, a file that is
\* not there, the history, an export that failed, an invalid choice) the
\* menu is shown again; choosing a file that does not exist calls no
\* transcription and leaves the table as it was.
C29_OnlyExitEnds ==
    /\ last.op \in MainOps \ {"main:5"} => MenuShown
    /\ (last.op = "main:2" /\ last.file_path \notin last.files_before) =>
          /\ ~InTrace("transcribe_file")
          /\ StoreUnchanged
          /\ last.result = <<"File not found!">>

=============================================================================
